---- MODULE Spec2Model ----
(***************************************************************************)
(* Model of swm::Matrix<T, Cols, Rows> (Matrix.hpp) and the Vector aliases  *)
(* (Vector.hpp).  A matrix value is its shape, its element type and its    *)
(* std::vector storage `data`.  A client holds matrix objects in a few     *)
(* named variables (Slots) and calls the library's operations on them.     *)
(*                                                                         *)
(* Storage indices are 0-based in the source and 1-based in TLA+            *)
(* sequences: the element the source calls data[k] is data[k + 1] here.    *)
(***************************************************************************)
EXTENDS Integers, Sequences, FiniteSets

\* ------------------------------------------------------------------ bounds
\* Largest Cols / Rows / Size template argument the client instantiates.
MaxDim == 2
\* Longest initializer list the client writes.
MaxLen == 5
\* Number of library calls the client makes, starting with no matrix at all.
MaxOps == 3

\* The client's matrix variables.
Slots == {"a", "r"}
\* First values of the client's initializer lists, and the values it writes
\* through the accessor.
LitVals == {-1, 2}
\* The scalars the client multiplies by.
Scalars == {-1, 4}
\* Values a read past the end of a std::vector's storage may produce.
JunkVals == {0, 5}
\* Target element types of the conversion operator (T is int elsewhere).
ConvTypes == {"bool", "uchar"}

Dims == 1..MaxDim
\* An initializer list of n consecutive values: {v, v + 1, ...}
Run(n, v) == [i \in 1..n |-> v + i - 1]
Lits == {Run(n, v) : n \in 0..MaxLen, v \in LitVals}

VARIABLES mem, last, budget
vars == <<mem, last, budget>>

\* A variable that holds no matrix yet.
NoMatrix == [type |-> "none", cols |-> 0, rows |-> 0, data |-> <<>>]

Live(s) == mem[s] # NoMatrix

Min(x, y) == IF x < y THEN x ELSE y

\* ------------------------------------------------------------ element type
\* static_cast<U>(in) for an int value `in`.
StaticCast(U, in) ==
    CASE U = "bool"  -> (IF in = 0 THEN 0 ELSE 1)
      [] U = "uchar" -> in % 256
      [] OTHER       -> in

\* ----------------------------------------------------------- construction
\* std::vector<T>(n, 0)
Zeros(n) == [i \in 1..n |-> 0]

\* std::vector::resize(n): keeps the first n elements, value-initialises the
\* rest.
\* (Faulty variant: the new elements are 1.)
ResizePadOne(v, n) == [i \in 1..n |-> IF i <= Len(v) THEN v[i] ELSE 1]
Resize(v, n) == [i \in 1..n |-> IF i <= Len(v) THEN v[i] ELSE 0]

\* Matrix<T, Cols, Rows>::Matrix()
Matrix(T, Cols, Rows) ==
    [type |-> T, cols |-> Cols, rows |-> Rows, data |-> Zeros(Cols * Rows)]

\* Matrix<T, Cols, Rows>::Matrix(std::initializer_list<T> il)
MatrixIl(T, Cols, Rows, il) ==
    [type |-> T, cols |-> Cols, rows |-> Rows, data |-> Resize(il, Cols * Rows)]

\* ---------------------------------------------------------------- accessor
\* The 0-based storage index operator()(col, row) addresses.
Index(m, col, row) == col + row * m.cols

\* const T& operator()(int col, int row) const
At(m, col, row) == m.data[Index(m, col, row) + 1]

\* T& operator()(int col, int row), assigned v
Assign(m, col, row, v) ==
    [m EXCEPT !.data[Index(m, col, row) + 1] = StaticCast(m.type, v)]

\* cols() / rows()
cols(m) == m.cols
rows(m) == m.rows

\* Vector2<T>, Vector3<T>, Vector4<T>: single-column matrices.
Vector2(T, il) == MatrixIl(T, 1, 2, il)
Vector3(T, il) == MatrixIl(T, 1, 3, il)
Vector4(T, il) == MatrixIl(T, 1, 4, il)

\* ---------------------------------------------------------------- identity
\* Body of the loop of identity<Size>(): id(i, i) = 1
\* (Faulty variant: id(0, i) = 1.)
identityBodyFirstCol(id, i) == Assign(id, 0, i, 1)
identityBody(id, i) == Assign(id, i, i, 1)

RECURSIVE identityLoop(_, _, _)
identityLoop(id, i, Size) ==
    IF i < Size THEN identityLoop(identityBody(id, i), i + 1, Size) ELSE id

\* Matrix<T, Cols, Rows>::identity<Size>()
identity(T, Size) == identityLoop(Matrix(T, Size, Size), 0, Size)

\* --------------------------------------------------------------- transpose
\* Body of the inner loop of transpose: t(i, j) = m(j, i)
\* (Faulty variant: t(i, j) = m(j, 0).)
transposeBodyFirstRow(t, m, i, j) == Assign(t, i, j, At(m, j, 0))
transposeBody(t, m, i, j) == Assign(t, i, j, At(m, j, i))

RECURSIVE transposeLoop(_, _, _, _)
transposeLoop(t, m, i, j) ==
    IF i >= m.rows THEN t
    ELSE IF j >= m.cols THEN transposeLoop(t, m, i + 1, 0)
    ELSE transposeLoop(transposeBody(t, m, i, j), m, i, j + 1)

\* Matrix<T, Cols, Rows>::transpose(m): t is a Matrix<T, Rows, Cols>
transpose(m) == transposeLoop(Matrix(m.type, m.rows, m.cols), m, 0, 0)

\* ------------------------------------------------------------------- slice
\* The inner loop of slice: *slicedRow = *thisRow until thisRow reaches
\* thisRowEnd.  Iterators are 0-based offsets from begin().
RECURSIVE sliceCopyRow(_, _, _, _, _)
sliceCopyRow(slicedData, thisData, thisRow, thisRowEnd, slicedRow) ==
    IF thisRow # thisRowEnd
    THEN sliceCopyRow([slicedData EXCEPT ![slicedRow + 1] = thisData[thisRow + 1]],
                      thisData, thisRow + 1, thisRowEnd, slicedRow + 1)
    ELSE slicedData

\* slicedRowBegin = slicedBegin + i * NewCols
\* (Faulty variant: the source's stride, i * Cols.)
slicedRowBeginOldStride(i, Cols, NewCols) == i * Cols
slicedRowBegin(i, Cols, NewCols) == i * NewCols

\* The outer loop of slice, over the rows both shapes have.
RECURSIVE sliceRows(_, _, _, _, _, _)
sliceRows(slicedData, m, NewCols, lesserRows, lesserCols, i) ==
    IF i < lesserRows
    THEN LET thisRowBegin == i * m.cols
             thisRowEnd   == thisRowBegin + lesserCols
         IN  sliceRows(sliceCopyRow(slicedData, m.data, thisRowBegin, thisRowEnd,
                                    slicedRowBegin(i, m.cols, NewCols)),
                       m, NewCols, lesserRows, lesserCols, i + 1)
    ELSE slicedData

\* std::vector::insert(begin() + pos, first, last): the range is inserted
\* before pos and the vector grows by its length.
Insert(v, pos, range) == SubSeq(v, 1, pos) \o range \o SubSeq(v, pos + 1, Len(v))

\* Matrix<T, Cols, Rows>::slice<NewCols, NewRows>()
slice(m, NewCols, NewRows) ==
    LET sliced     == Matrix(m.type, NewCols, NewRows)
        lesserRows == IF m.rows < NewRows THEN m.rows ELSE NewRows
    IN  IF m.cols # NewCols
        THEN LET lesserCols == IF m.cols < NewCols THEN m.cols ELSE NewCols
             IN  [sliced EXCEPT !.data =
                     sliceRows(sliced.data, m, NewCols, lesserRows, lesserCols, 0)]
        ELSE LET end == lesserRows * m.cols
             IN  [sliced EXCEPT !.data =
                     Insert(sliced.data, 0, SubSeq(m.data, 1, end))]

\* ---------------------------------------------------------- std::transform
\* The values a vector holds: the arguments its transform passes to op.
Elems(v) == {v[i] : i \in 1..Len(v)}

\* std::transform(first, last, d_first, op) writes op(first[i]) to d_first[i]
\* for every i of [first, last): it takes the length from the input range
\* and checks neither the output range nor a second input range.  `out` is
\* the destination storage afterwards, `spill` the values written past its
\* end, `overread` the number of reads past the end of the second input
\* (each of which yields an unconstrained value, junk).  op is the lambda, as
\* a function of its argument (a pair for the binary form).
transform1(first, d, op) ==
    [out      |-> [i \in 1..Len(d) |-> IF i <= Len(first) THEN op[first[i]] ELSE d[i]],
     spill    |-> [i \in 1..(Len(first) - Len(d)) |-> op[first[Len(d) + i]]],
     overread |-> 0]

transform2(first1, first2, d, junk, op) ==
    LET in2(i) == IF i <= Len(first2) THEN first2[i] ELSE junk
    IN  [out      |-> [i \in 1..Len(d) |->
                          IF i <= Len(first1) THEN op[<<first1[i], in2(i)>>] ELSE d[i]],
         spill    |-> [i \in 1..(Len(first1) - Len(d)) |->
                          op[<<first1[Len(d) + i], in2(Len(d) + i)>>]],
         overread |-> IF Len(first1) > Len(first2)
                      THEN Len(first1) - Len(first2) ELSE 0]

\* What an operation returns: the matrix, and what it did outside storage.
Ret(m, t) == [m |-> [m EXCEPT !.data = t.out], spill |-> t.spill, overread |-> t.overread]
Clean(m)  == [m |-> m, spill |-> <<>>, overread |-> 0]

\* -------------------------------------------------------------- conversion
\* operator Matrix<U, Cols, Rows>() const
convert(m, U) ==
    LET newMatrix == Matrix(U, m.cols, m.rows)
        lambda    == [in \in Elems(m.data) |-> StaticCast(U, in)]
    IN  Ret(newMatrix, transform1(m.data, newMatrix.data, lambda))

\* ------------------------------------------------------------- matrix math
\* The bodies of the lambdas of operator+ and operator-.
\* (Faulty variant of plus: lhs - rhs.)
plusAsMinus(lhs, rhs) == lhs - rhs
plus(lhs, rhs) == lhs + rhs
minus(lhs, rhs) == lhs - rhs

\* The pairs (lhs, rhs) a binary transform over this->data and other.data
\* can pass to its lambda.
Pairs(this, other, junk) == Elems(this.data) \X (Elems(other.data) \cup {junk})

\* operator+ (const Matrix<U, Cols, Rows>& other)
add(this, other, junk) ==
    LET newMatrix == Matrix("int", this.cols, this.rows)
        lambda    == [lr \in Pairs(this, other, junk) |-> plus(lr[1], lr[2])]
    IN  Ret(newMatrix, transform2(this.data, other.data, newMatrix.data, junk, lambda))

\* operator- (const Matrix<U, Cols, Rows>& other)
sub(this, other, junk) ==
    LET newMatrix == Matrix("int", this.cols, this.rows)
        lambda    == [lr \in Pairs(this, other, junk) |-> minus(lr[1], lr[2])]
    IN  Ret(newMatrix, transform2(this.data, other.data, newMatrix.data, junk, lambda))

\* Body of the innermost loop of operator*:
\* newMatrix(j, i) += this->operator()(k, i) * other(j, k)
\* (Faulty variant: = in place of +=.)
mulBodyOverwrite(newMatrix, this, other, i, j, k) ==
    Assign(newMatrix, j, i, At(this, k, i) * At(other, j, k))
mulBody(newMatrix, this, other, i, j, k) ==
    Assign(newMatrix, j, i, At(newMatrix, j, i) + At(this, k, i) * At(other, j, k))

RECURSIVE mulLoop(_, _, _, _, _, _)
mulLoop(newMatrix, this, other, i, j, k) ==
    IF i >= rows(newMatrix) THEN newMatrix
    ELSE IF j >= cols(newMatrix) THEN mulLoop(newMatrix, this, other, i + 1, 0, 0)
    ELSE IF k >= this.cols THEN mulLoop(newMatrix, this, other, i, j + 1, 0)
    ELSE mulLoop(mulBody(newMatrix, this, other, i, j, k), this, other, i, j, k + 1)

\* operator* (const Matrix<U, OtherCols, Cols>& other)
mul(this, other) == mulLoop(Matrix("int", other.cols, this.rows), this, other, 0, 0, 0)

\* The body of the lambda of the scalar product: in * scalar
\* (Faulty variant: in.)
timesIgnoringScalar(in, scalar) == in
times(in, scalar) == in * scalar

\* operator* (const Matrix<T, Cols, Rows>& matrix, const U& scalar)
scalarMul(matrix, scalar) ==
    LET newMatrix == Matrix("int", matrix.cols, matrix.rows)
        lambda    == [in \in Elems(matrix.data) |-> times(in, scalar)]
    IN  Ret(newMatrix, transform1(matrix.data, newMatrix.data, lambda))

\* operator* (const U& scalar, const Matrix<T, Cols, Rows>& matrix)
scalarMulLeft(scalar, matrix) == scalarMul(matrix, scalar)

\* ------------------------------------------------------ writes past storage
\* A write past the end of newMatrix's heap block lands in whatever the
\* allocator placed behind it: nothing the program looks at again, or the
\* storage of another live matrix, which then starts `gap` elements into the
\* spilled values.
Land(m, spill, gap) ==
    [m EXCEPT !.data = [i \in 1..Len(m.data) |->
                           IF gap + i <= Len(spill) THEN spill[gap + i] ELSE m.data[i]]]

\* The outcomes of one call: <<victim, gap>>, victim "none" when the spilled
\* values hit no live matrix.
Outcomes(dst, ret) ==
    {<<"none", 0>>} \cup
    {<<v, g>> : v \in {s \in Slots \ {dst} : Live(s)}, g \in 0..(Len(ret.spill) - 1)}

\* ------------------------------------------------------------------- state
\* mem:  the matrix each client variable holds.
\* last: the call made last: its operands as they were when it was made, its
\*       template and value arguments, what it returned and how many storage
\*       accesses it made outside [0, size).
\* budget: the number of calls the client still makes.
NoCall ==
    [op |-> "none", dst |-> "none", xs |-> "none", ys |-> "none",
     x |-> NoMatrix, y |-> NoMatrix, p |-> 0, q |-> 0, il |-> <<>>,
     res |-> NoMatrix, spill |-> 0, overread |-> 0, victim |-> "none"]

Init ==
    /\ mem = [s \in Slots |-> NoMatrix]
    /\ last = NoCall
    /\ budget = MaxOps

Operand(s) == IF s = "none" THEN NoMatrix ELSE mem[s]

\* dst = <call>: the returned matrix is assigned to dst; the call's
\* out-of-storage writes have the outcome oc.
Call(op, dst, xs, ys, p, q, il, ret) ==
    /\ budget > 0
    /\ \E oc \in Outcomes(dst, ret) :
       /\ mem' = [s \in Slots |->
                    IF s = dst THEN ret.m
                    ELSE IF s = oc[1] THEN Land(mem[s], ret.spill, oc[2])
                    ELSE mem[s]]
       /\ last' = [op |-> op, dst |-> dst, xs |-> xs, ys |-> ys,
                   x |-> Operand(xs), y |-> Operand(ys), p |-> p, q |-> q, il |-> il,
                   res |-> ret.m, spill |-> Len(ret.spill), overread |-> ret.overread,
                   victim |-> oc[1]]
    /\ budget' = budget - 1

\* What the reads of operator+ / operator- past the end of other.data may
\* yield: nothing is read there unless this->data is the longer.
Junk(this, other) == IF Len(this.data) > Len(other.data) THEN JunkVals ELSE {0}

\* ----------------------------------------------------------------- actions
\* Matrix<int, Cols, Rows> dst;
Default(dst, Cols, Rows) ==
    /\ ~Live(dst)
    /\ Call("default", dst, "none", "none", Cols, Rows, <<>>,
         Clean(Matrix("int", Cols, Rows)))

\* Matrix<int, Cols, Rows> dst{il};
Literal(dst, Cols, Rows, il) ==
    /\ ~Live(dst)
    /\ Call("literal", dst, "none", "none", Cols, Rows, il,
         Clean(MatrixIl("int", Cols, Rows, il)))

\* dst = Matrix<int, ., .>::identity<Size>();
Identity(dst, Size) ==
    /\ ~Live(dst)
    /\ Call("identity", dst, "none", "none", Size, Size, <<>>,
         Clean(identity("int", Size)))

\* dst = Matrix::transpose(xs);
Transpose(dst, xs) ==
    /\ Live(xs)
    /\ Call("transpose", dst, xs, "none", 0, 0, <<>>,
            Clean(transpose(mem[xs])))

\* dst = xs.slice<NewCols, NewRows>();
Slice(dst, xs, NewCols, NewRows) ==
    /\ Live(xs)
    /\ Call("slice", dst, xs, "none", NewCols, NewRows, <<>>,
            Clean(slice(mem[xs], NewCols, NewRows)))

\* dst = static_cast<Matrix<U, Cols, Rows>>(xs);
Convert(dst, xs, U) ==
    /\ Live(xs)
    /\ Call("convert", dst, xs, "none", 0, 0, <<U>>, convert(mem[xs], U))

\* dst = xs + ys;  (both Cols x Rows, or it does not compile)
Add(dst, xs, ys) ==
    /\ Live(xs) /\ Live(ys)
    /\ mem[xs].cols = mem[ys].cols /\ mem[xs].rows = mem[ys].rows
    /\ \E junk \in Junk(mem[xs], mem[ys]) :
          Call("add", dst, xs, ys, 0, 0, <<>>, add(mem[xs], mem[ys], junk))

\* dst = xs - ys;
Sub(dst, xs, ys) ==
    /\ Live(xs) /\ Live(ys)
    /\ mem[xs].cols = mem[ys].cols /\ mem[xs].rows = mem[ys].rows
    /\ \E junk \in Junk(mem[xs], mem[ys]) :
          Call("sub", dst, xs, ys, 0, 0, <<>>, sub(mem[xs], mem[ys], junk))

\* dst = xs * ys;  (ys is OtherCols x Cols, or it does not compile)
Mul(dst, xs, ys) ==
    /\ Live(xs) /\ Live(ys)
    /\ mem[ys].rows = mem[xs].cols
    /\ Call("mul", dst, xs, ys, 0, 0, <<>>, Clean(mul(mem[xs], mem[ys])))

\* dst = xs * scalar;
ScalarMul(dst, xs, scalar) ==
    /\ Live(xs)
    /\ Call("scalarMul", dst, xs, "none", scalar, 0, <<>>, scalarMul(mem[xs], scalar))

\* dst = scalar * xs;
ScalarMulLeft(dst, scalar, xs) ==
    /\ Live(xs)
    /\ Call("scalarMulLeft", dst, xs, "none", scalar, 0, <<>>,
            scalarMulLeft(scalar, mem[xs]))

\* xs(col, row) = v;  with (col, row) inside the shape
SetAt(xs, col, row, v) ==
    /\ Live(xs)
    /\ col < mem[xs].cols /\ row < mem[xs].rows
    /\ Call("assign", xs, xs, "none", col, row, <<v>>,
            Clean(Assign(mem[xs], col, row, v)))

Next ==
    \/ \E dst \in Slots, Cols \in Dims, Rows \in Dims : Default(dst, Cols, Rows)
    \/ \E dst \in Slots, Cols \in Dims, Rows \in Dims, il \in Lits :
          Literal(dst, Cols, Rows, il)
    \/ \E dst \in Slots, Size \in Dims : Identity(dst, Size)
    \/ \E dst \in Slots, xs \in Slots : Transpose(dst, xs)
    \/ \E dst \in Slots, xs \in Slots, NewCols \in Dims, NewRows \in Dims :
          Slice(dst, xs, NewCols, NewRows)
    \/ \E dst \in Slots, xs \in Slots, U \in ConvTypes : Convert(dst, xs, U)
    \/ \E dst \in Slots, xs \in Slots, ys \in Slots : Add(dst, xs, ys)
    \/ \E dst \in Slots, xs \in Slots, ys \in Slots : Sub(dst, xs, ys)
    \/ \E dst \in Slots, xs \in Slots, ys \in Slots : Mul(dst, xs, ys)
    \/ \E dst \in Slots, xs \in Slots, scalar \in Scalars : ScalarMul(dst, xs, scalar)
    \/ \E dst \in Slots, xs \in Slots, scalar \in Scalars : ScalarMulLeft(dst, scalar, xs)
    \/ \E xs \in Slots, col \in 0..(MaxDim - 1), row \in 0..(MaxDim - 1), v \in LitVals :
          SetAt(xs, col, row, v)

Spec == Init /\ [][Next]_vars

\* --------------------------------------------------------- one call alone
\* Every operation is a pure function of its operands.  SpecCall starts
\* with operands the client can have built and makes one call on them: the
\* first operand is a constructed matrix or a slice of one, the second is
\* absent, built from the first, or a constructed matrix of any shape.
Built ==
    {MatrixIl("int", c, r, il) : c \in Dims, r \in Dims, il \in Lits}
    \cup {identity("int", n) : n \in Dims}

Firsts == Built \cup {slice(m, c, r) : m \in Built, c \in Dims, r \in Dims}

Seconds(m) ==
    {NoMatrix, m, Matrix("int", m.cols, m.rows), transpose(m),
     identity("int", m.cols), identity("int", m.rows), slice(m, m.cols, m.rows)}
    \cup {MatrixIl("int", c, r, Run(c * r, 2)) : c \in Dims, r \in Dims}

InitCall ==
    /\ \E m \in Firsts : \E n \in Seconds(m) : mem = [a |-> m, r |-> n]
    /\ last = NoCall
    /\ budget = 1

SpecCall == InitCall /\ [][Next]_vars


\* ================================================================== claims
Cells(m) == {<<c, r>> : c \in 0..(m.cols - 1), r \in 0..(m.rows - 1)}

\* Element-wise equality of two matrices of one shape, through the accessor.
SameElements(m, n) ==
    /\ m.cols = n.cols /\ m.rows = n.rows
    /\ \A cr \in Cells(m) : At(m, cr[1], cr[2]) = At(n, cr[1], cr[2])

\* The sum over k in [0, n) of lhs(k, i) * rhs(j, k).
RECURSIVE RowByColumn(_, _, _, _, _)
RowByColumn(lhs, rhs, j, i, n) ==
    IF n = 0 THEN 0
    ELSE RowByColumn(lhs, rhs, j, i, n - 1) + At(lhs, n - 1, i) * At(rhs, j, n - 1)

\* C1: every matrix the client holds, however it was produced, has a storage
\* sequence of exactly Cols * Rows elements.
StorageLengthIsShape ==
    \A s \in Slots : Live(s) => Len(mem[s].data) = mem[s].cols * mem[s].rows

\* C2: with every accessor call inside the shape, no call reads or writes a
\* storage index outside the sequence it touches.
NoAccessOutsideStorage == last.spill = 0 /\ last.overread = 0

\* C3: S = A.slice<NewCols, NewRows>() is NewCols x NewRows with S(c, r) =
\* A(c, r) inside the overlap of the two shapes and 0 outside it.
SliceCopiesOverlap ==
    last.op = "slice" =>
        LET A == last.x
            S == last.res
        IN  /\ S.cols = last.p /\ S.rows = last.q
            /\ \A cr \in Cells(S) :
                  At(S, cr[1], cr[2]) =
                      IF cr[1] < Min(A.cols, last.p) /\ cr[2] < Min(A.rows, last.q)
                      THEN At(A, cr[1], cr[2]) ELSE 0
            /\ (last.p = A.cols /\ last.q = A.rows => SameElements(S, A))

\* A slice that keeps the columns and adds a row, of a matrix with a
\* non-zero element, has been taken.
SliceCopiesOverlapWitness ==
    /\ last.op = "slice"
    /\ last.p = last.x.cols /\ last.q > last.x.rows
    /\ At(last.x, 0, 0) # 0

\* C4: lhs * rhs is OtherCols x Rows and result(j, i) is the sum over k in
\* [0, Cols) of lhs(k, i) * rhs(j, k), accumulated from zero.
MulIsRowByColumn ==
    last.op = "mul" =>
        /\ last.res.cols = last.y.cols /\ last.res.rows = last.x.rows
        /\ \A ji \in Cells(last.res) :
              At(last.res, ji[1], ji[2]) =
                  RowByColumn(last.x, last.y, ji[1], ji[2], last.x.cols)

\* A product with an inner dimension of two and a non-zero result has been
\* computed.
MulIsRowByColumnWitness ==
    /\ last.op = "mul"
    /\ last.x.cols = 2 /\ last.x.rows # last.y.cols
    /\ \E ji \in Cells(last.res) : At(last.res, ji[1], ji[2]) # 0

\* C5: identity<N>() is N x N with 1 on the diagonal and 0 elsewhere, and for
\* a square N x N matrix A, A * identity<N>() and identity<N>() * A equal A.
IdentityLaw ==
    /\ last.op = "identity" =>
          /\ last.res.cols = last.p /\ last.res.rows = last.p
          /\ \A cr \in Cells(last.res) :
                At(last.res, cr[1], cr[2]) = IF cr[1] = cr[2] THEN 1 ELSE 0
    /\ last.op = "mul" /\ last.x.cols = last.x.rows
          /\ last.y = identity("int", last.x.cols)
          => SameElements(last.res, last.x)
    /\ last.op = "mul" /\ last.y.cols = last.y.rows
          /\ last.x = identity("int", last.y.cols)
          => SameElements(last.res, last.y)

\* A 2 x 2 matrix with a non-zero element off the diagonal has been
\* multiplied by identity<2>().
IdentityLawWitness ==
    /\ last.op = "mul"
    /\ last.x.cols = 2 /\ last.x.rows = 2 /\ At(last.x, 1, 0) # 0
    /\ last.y = identity("int", 2)

\* C6: transpose(A) is Rows x Cols with transpose(A)(i, j) = A(j, i), and
\* transpose(transpose(A)) is Cols x Rows and equals A.
TransposeSwaps ==
    last.op = "transpose" =>
        /\ last.res.cols = last.x.rows /\ last.res.rows = last.x.cols
        /\ \A ij \in Cells(last.res) :
              At(last.res, ij[1], ij[2]) = At(last.x, ij[2], ij[1])
        /\ SameElements(transpose(last.res), last.x)

\* A matrix that is not square, with a non-zero element outside its first
\* column, has been transposed.
TransposeSwapsWitness ==
    /\ last.op = "transpose"
    /\ last.x.cols = 2 /\ last.x.rows = 1 /\ At(last.x, 1, 0) # 0

\* C7: A + B and A - B are Cols x Rows with element (c, r) equal to
\* A(c, r) + B(c, r), respectively A(c, r) - B(c, r), whatever produced A
\* and B; so A + zero equals A and A - A is all zero.
AddSubPairwise ==
    /\ last.op = "add" =>
          /\ last.res.cols = last.x.cols /\ last.res.rows = last.x.rows
          /\ \A cr \in Cells(last.res) :
                At(last.res, cr[1], cr[2]) =
                    At(last.x, cr[1], cr[2]) + At(last.y, cr[1], cr[2])
          /\ (last.y = Matrix("int", last.x.cols, last.x.rows)
                 => SameElements(last.res, last.x))
    /\ last.op = "sub" =>
          /\ last.res.cols = last.x.cols /\ last.res.rows = last.x.rows
          /\ \A cr \in Cells(last.res) :
                At(last.res, cr[1], cr[2]) =
                    At(last.x, cr[1], cr[2]) - At(last.y, cr[1], cr[2])
          /\ (last.y = last.x
                 => SameElements(last.res, Matrix("int", last.x.cols, last.x.rows)))

\* A matrix returned by slice, with a non-zero element, has been added to a
\* constructed one.
AddSubPairwiseWitness ==
    /\ last.op = "add"
    /\ \E c \in Dims, r \in Dims, il \in Lits :
          /\ Len(il) > 0
          /\ last.x = slice(MatrixIl("int", c, r, il), c, r)
          /\ last.y = MatrixIl("int", c, r, Run(c * r, 2))

\* C9: a Cols x Rows matrix built from the list s has s[i] at linear index i
\* for i < length(s) and 0 after it, a longer list being cut to its first
\* Cols * Rows values; a default-constructed matrix is 0 everywhere.
LiteralFill ==
    /\ last.op = "literal" =>
          /\ last.res.cols = last.p /\ last.res.rows = last.q
          /\ \A i \in 0..(last.p * last.q - 1) :
                At(last.res, i % last.p, i \div last.p) =
                    IF i < Len(last.il) THEN last.il[i + 1] ELSE 0
    /\ last.op = "default" =>
          /\ last.res.cols = last.p /\ last.res.rows = last.q
          /\ \A cr \in Cells(last.res) : At(last.res, cr[1], cr[2]) = 0

\* A 2 x 2 matrix has been built from a list of more than four values.
LiteralFillWitness ==
    /\ last.op = "literal"
    /\ last.p = 2 /\ last.q = 2 /\ Len(last.il) > 4

OperandsUnchanged ==
    [][\A s \in Slots : s # last'.dst => mem'[s] = mem[s]]_vars

====
